---------------------------- MODULE Spec2Model ----------------------------
(***************************************************************************)
(* State-machine model of chapel_booking.py: main() drives one booking run *)
(* through login, court-type selection, date selection (jQuery datepicker  *)
(* navigation), slot scanning, slot selection and player entry, basket,    *)
(* terms and confirmation.  The Selenium driver and the booking site are   *)
(* the environment: every driver call that can time out or raise is a      *)
(* nondeterministic choice in the action that makes the call.              *)
(***************************************************************************)
EXTENDS Integers, Sequences, FiniteSets, TLC

(***************************************************************************)
(* Bounds of the model.                                                    *)
(***************************************************************************)
\* longest roster (PLAYER_NAMES) explored
MaxRoster == 3
\* most candidate booking spans the rendered grid holds
MaxSpans == 2
\* number of calendar years the datepicker can display, from BaseYear on
NumYears == 2
\* whole-run specification: the datepicker opens at most this many months
\* away from the target month
NavSpan == 1
\* consent specification: most calls of handle_cookie_consent in one run
MaxConsentCalls == 2

(***************************************************************************)
(* Program constants.                                                      *)
(***************************************************************************)
\* the default COURT_TYPE
DefaultCourtType == "Padel Courts"
\* max_players / len(field_info): the three opponent fields
max_players == 3
\* the default BOOKING_DATE "18-06-2025"
DefaultDay == 18
DefaultMonth == 6
BaseYear == 2025
\* len(login_selectors), len(username_selectors), len(password_selectors)
\* and len(consent_selectors)
NumLinkSelectors == 4
NumUsernameSelectors == 4
NumPasswordSelectors == 4
NumConsentSelectors == 8

Years == BaseYear .. (BaseYear + NumYears - 1)
Months == 1 .. 12

\* list(calendar.month_name): index 0 is the empty string
month_name ==
    << "", "January", "February", "March", "April", "May", "June", "July",
       "August", "September", "October", "November", "December" >>

\* Python's list.index, 0-based, of a value the list holds
PyIndex(lst, x) ==
    (CHOOSE i \in 1 .. Len(lst) :
        lst[i] = x /\ \A j \in 1 .. (i - 1) : lst[j] # x) - 1

\* the text the datepicker renders for month m
MonthText(m) == month_name[m + 1]

(***************************************************************************)
(* Date strings.  A numeric field of a string is its width and its value   *)
(* ("06" and "6" are different strings with the same int()), a date string *)
(* "DD-MM-YYYY" is the tuple of its three fields.                          *)
(***************************************************************************)
NumField(n, padded) == [w |-> IF padded \/ n >= 10 THEN 2 ELSE 1, n |-> n]

MkDate(d, m, y, padded) ==
    << NumField(d, padded), NumField(m, padded), [w |-> 4, n |-> y] >>

\* the empty string, as a field value
NoText == << >>

\* target_day, target_month, target_year = map(int, date_str.split('-'))
ParseDate(s) == [day |-> s[1].n, month |-> s[2].n, year |-> s[3].n]

DefaultBookingDate == MkDate(DefaultDay, DefaultMonth, BaseYear, TRUE)

\* every BOOKING_DATE the date-selection specification explores
AllBookingDates ==
    { MkDate(DefaultDay, m, y, p) : m \in Months, y \in Years, p \in BOOLEAN }

\* displayed (year, month) pairs, compared as Python compares tuples
AllShown == Years \X Months

\* mutant: only the months are compared
TupleLessMonthOnly(a, b) == a[2] < b[2]


TupleLess(a, b) == a[1] < b[1] \/ (a[1] = b[1] /\ a[2] < b[2])

\* the datepicker one month later / earlier
NextMonth(q) == IF q[2] = 12 THEN << q[1] + 1, 1 >> ELSE << q[1], q[2] + 1 >>

PrevMonth(q) == IF q[2] = 1 THEN << q[1] - 1, 12 >> ELSE << q[1], q[2] - 1 >>

\* months from a to b, signed
MonthDelta(a, b) == (b[1] - a[1]) * 12 + (b[2] - a[2])

Abs(n) == IF n < 0 THEN -n ELSE n

\* rosters up to renaming of the names: the k-th new name is k
RECURSIVE RostersOfLen(_)
RostersOfLen(n) ==
    IF n = 0 THEN { << >> }
    ELSE LET shorter == RostersOfLen(n - 1)
             Top(r) == IF Len(r) = 0 THEN 0
                       ELSE CHOOSE k \in 1 .. Len(r) :
                                (\E i \in 1 .. Len(r) : r[i] = k)
                                /\ \A i \in 1 .. Len(r) : r[i] <= k
         IN  UNION { { Append(r, k) : k \in 1 .. (Top(r) + 1) } : r \in shorter }

\* self.player_names: the non-empty names of PLAYER_NAMES, in order
Rosters == UNION { RostersOfLen(n) : n \in 0 .. MaxRoster }

Names == 1 .. MaxRoster

NoName == 0

\* no lookup has been made for the name in hand
NoSignal ==
    [ search |-> FALSE, error |-> "none", refind |-> FALSE,
      tooltip |-> FALSE, value |-> "none" ]

\* the page whose court grid is not known before it is scanned
NoPage == [ known |-> FALSE, grid |-> << >> ]

Range(s) == { s[i] : i \in 1 .. Len(s) }

VARIABLES
    \* configuration read by __init__
    credentials, player_names, booking_date, use_visitors, court_type,
    \* the driver session and the site
    driver, shown, banedato,
    \* main and the stage results
    pc, cookie_consent_handled, loginRet, courtRet, sdExit, bcRet, epExit,
    \* the stages started so far, and the exception that ended main
    started, fault,
    \* select_court_type
    customExit, setterRuns, current_value,
    \* login and handle_cookie_consent
    chain, chainFirst, chainPicked, chainTried, loginExit, submitVia,
    submitTried, modalSeen, indicatorSeen,
    consentCalls, consentRuns, consentRet,
    \* select_date
    current, opened, navNext, navPrev, navStuck, calOpens, dayClicks, dayCell,
    \* find_available_courts and book_court
    rendered, scanExit, available, si, attempted, slotForm,
    clickTried, clickVia, formSeen,
    \* enter_players
    idx, ni, name, signal, used, rejected, bound, accepted, epFault,
    finalRead, basketClicks, tncRead, confirmClicks,
    looked, basketPage, receipt

cfgVars ==
    << credentials, player_names, booking_date, use_visitors, court_type >>

traceVars == << started, fault >>

consentVars == << consentCalls, consentRuns, consentRet >>

courtVars == << customExit, setterRuns, current_value >>

mainVars == << cookie_consent_handled, loginRet, courtRet, courtVars >>

loginVars ==
    << chain, chainFirst, chainPicked, chainTried, loginExit, submitVia,
       submitTried, modalSeen, indicatorSeen >>

dateVars ==
    << shown, banedato, sdExit, current, opened, navNext, navPrev, navStuck,
       calOpens, dayClicks, dayCell >>

scanVars ==
    << rendered, scanExit, available, si, attempted, slotForm, bcRet >>

clickVars == << clickTried, clickVia, formSeen >>

bookVars == << scanVars, clickVars >>

epVars ==
    << epExit, idx, ni, name, signal, used, rejected, bound, accepted,
       epFault, finalRead, basketClicks, tncRead, confirmClicks, looked,
       basketPage, receipt >>

vars ==
    << cfgVars, driver, pc, mainVars, traceVars, loginVars, consentVars,
       dateVars, bookVars, epVars >>

(***************************************************************************)
(* Initial states.                                                         *)
(***************************************************************************)
\* the state every run starts in, whatever the configuration
InitRun ==
    /\ banedato = NoText
    /\ cookie_consent_handled = FALSE
    /\ loginRet = "none" /\ courtRet = "none" /\ sdExit = "none"
    /\ customExit = "none" /\ setterRuns = 0 /\ current_value = "none"
    /\ bcRet = "none" /\ epExit = "none"
    /\ started = << >> /\ fault = "none"
    /\ consentCalls = 0 /\ consentRuns = 0 /\ consentRet = "none"
    /\ chain = "none" /\ chainFirst = 0
    /\ chainPicked = 0 /\ chainTried = 0
    /\ loginExit = "none" /\ submitVia = "none" /\ submitTried = << >>
    /\ modalSeen = "none" /\ indicatorSeen = "none"
    /\ current = << 0, 0 >> /\ opened = << 0, 0 >>
    /\ navNext = 0 /\ navPrev = 0 /\ navStuck = FALSE
    /\ calOpens = 0 /\ dayClicks = 0 /\ dayCell = "none"
    /\ scanExit = "none" /\ available = << >> /\ si = 0
    /\ attempted = << >> /\ slotForm = FALSE
    /\ clickTried = << >> /\ clickVia = "none" /\ formSeen = "none"
    /\ idx = 0 /\ ni = 0 /\ name = NoName /\ signal = NoSignal
    /\ finalRead = << >>
    /\ used = {} /\ rejected = {} /\ accepted = {}
    /\ bound = [f \in 1 .. max_players |-> NoName]
    /\ epFault = FALSE
    /\ basketClicks = 0 /\ tncRead = "none" /\ confirmClicks = 0
    /\ looked = {} /\ basketPage = "none" /\ receipt = "none"

\* the target (year, month) of a date string
TargetOf(s) == << ParseDate(s).year, ParseDate(s).month >>

\* main() about to construct ChapelBooking with USE_VISITORS as given: the
\* default booking date, any roster, the datepicker near the target month
InitWith(visitors) ==
    /\ InitRun
    /\ pc = "main"
    /\ driver = "none"
    /\ credentials \in BOOLEAN
    /\ player_names \in Rosters
    /\ use_visitors = visitors
    /\ court_type = DefaultCourtType
    /\ booking_date = DefaultBookingDate
    /\ rendered = NoPage
    /\ shown \in { q \in AllShown :
                     Abs(MonthDelta(TargetOf(DefaultBookingDate), q)) <= NavSpan }

\* USE_VISITORS is not set: os.getenv("USE_VISITORS", "false")
Init == InitWith(FALSE)

(***************************************************************************)
(* main and the stages it calls.                                           *)
(***************************************************************************)
\* mutant: the driver session is requested before the credentials are looked at
RefusedDriverOpened(d) == "open"

\* the driver when __init__ raises ValueError: the raise comes before
\* webdriver.Remote is called, so self.driver is what it was, never set
RefusedDriver(d) == d

\* ChapelBooking(): ValueError without credentials, before any driver exists;
\* webdriver.Remote may fail to open a session.  Neither is caught by main.
Construct ==
    /\ pc = "main"
    /\ \/ /\ ~credentials
          /\ pc' = "raised" /\ fault' = "ValueError"
          /\ driver' = RefusedDriver(driver)
       \/ /\ credentials
          /\ \/ pc' = "login" /\ driver' = "open" /\ UNCHANGED fault
             \/ pc' = "raised" /\ fault' = "driver" /\ UNCHANGED driver
    /\ UNCHANGED << cfgVars, mainVars, started, loginVars, consentVars,
                    dateVars, bookVars, epVars >>

\* a return of login: True at "ok", False at every other place
LoginReturn(why) ==
    /\ loginExit' = why
    /\ loginRet' = IF why = "ok" THEN "ok" ELSE "fail"
    /\ pc' = "login_done"

\* self.driver.get(self.BASE_URL): a failure is caught by login's except
LoginGet ==
    /\ pc = "login"
    /\ started' = Append(started, "login")
    /\ \/ LoginReturn("exception")
       \/ pc' = "consent" /\ UNCHANGED << loginRet, loginExit >>
    /\ UNCHANGED << cfgVars, driver, cookie_consent_handled, courtRet,
                    courtVars, fault,
                    chain, chainFirst, chainPicked, chainTried, submitVia,
                    submitTried, modalSeen, indicatorSeen, consentVars,
                    dateVars, bookVars, epVars >>

\* what the site does for each descriptor of a locator chain, in order:
\* "timeout" when the wait expires or raises, "found" when the element is
\* resolved (and, where the chain clicks it, the click went through),
\* "click_raises" when it is resolved and the click on it raises
ChainSites(n, kinds) == [ 1 .. n -> kinds ]

\* for selector in selectors: try: ...; break / except: continue.  The
\* descriptor used (0 for none) and how many descriptors were tried.
RECURSIVE TryFrom(_, _)
TryFrom(site, i) ==
    IF i > Len(site) THEN [ picked |-> 0, tried |-> Len(site) ]
    ELSE IF site[i] = "found" THEN [ picked |-> i, tried |-> i ]
    ELSE TryFrom(site, i + 1)

\* the first descriptor the site resolves, 0 when every one times out
FirstResolving(site) ==
    IF \A i \in 1 .. Len(site) : site[i] = "timeout" THEN 0
    ELSE CHOOSE i \in 1 .. Len(site) :
             site[i] # "timeout" /\ \A j \in 1 .. (i - 1) : site[j] = "timeout"

\* the chain just run, the first descriptor the site resolved for it, and
\* what the loop made of it
RunChain(which, site) ==
    /\ chain' = which
    /\ chainFirst' = FirstResolving(site)
    /\ chainPicked' = TryFrom(site, 1).picked
    /\ chainTried' = TryFrom(site, 1).tried

\* mutant: the chain is run on every call
ConsentDueAlways(handled) == TRUE

\* if hasattr(self, '_cookie_consent_handled'): return True
ConsentDue(handled) == ~handled

\* handle_cookie_consent(): nothing to do when the session is marked as
\* handled; else each consent selector is waited for and clicked inside one
\* try, and the session is marked as handled whether a button was clicked or
\* not.  login does not look at the result.
HandleCookieConsent ==
    /\ pc = "consent"
    /\ IF ConsentDue(cookie_consent_handled)
       THEN /\ \E site \in ChainSites(NumConsentSelectors,
                                      { "timeout", "found", "click_raises" }) :
                 RunChain("consent", site)
            /\ cookie_consent_handled' = TRUE
            /\ consentRuns' = consentRuns + 1
       ELSE UNCHANGED << cookie_consent_handled, chain, chainFirst,
                         chainPicked, chainTried, consentRuns >>
    /\ consentCalls' = consentCalls + 1
    /\ consentRet' = "ok"
    /\ pc' = "login_link"
    /\ UNCHANGED << cfgVars, driver, loginRet, courtRet, courtVars,
                    traceVars, loginExit,
                    submitVia, submitTried, modalSeen, indicatorSeen,
                    dateVars, bookVars, epVars >>

\* one more call of handle_cookie_consent() on the same object, made where
\* login makes its own
ConsentAgain ==
    /\ pc = "login_link"
    /\ consentCalls < MaxConsentCalls
    /\ pc' = "consent"
    /\ UNCHANGED << cfgVars, driver, mainVars, traceVars, loginVars,
                    consentVars, dateVars, bookVars, epVars >>

\* mutant: a chain that found nothing does not stop login
AfterChainUnchecked(picked, next) == next

\* if not login_link / username_field / password_field: return False
AfterChain(picked, next) == IF picked = 0 THEN "login_done" ELSE next

\* one of login's three locator chains, then the check of its result
LoginChain(at, n, next) ==
    /\ pc = at
    /\ \E site \in ChainSites(n, { "timeout", "found" }) :
         /\ RunChain(at, site)
         /\ IF AfterChain(TryFrom(site, 1).picked, next) = "login_done"
            THEN LoginReturn("not_found")
            ELSE pc' = next /\ UNCHANGED << loginRet, loginExit >>
    /\ UNCHANGED << cfgVars, driver, cookie_consent_handled, courtRet,
                    courtVars,
                    traceVars, submitVia, submitTried, modalSeen,
                    indicatorSeen, consentVars, dateVars, bookVars, epVars >>

\* the login link: four XPaths, each waited for until clickable
LoginLink == LoginChain("login_link", NumLinkSelectors, "login_modal")

\* click the link, wait for the modal, list its inputs: any failure is
\* caught by login's except
LoginModal ==
    /\ pc = "login_modal"
    /\ \/ LoginReturn("exception")
       \/ pc' = "login_user" /\ UNCHANGED << loginRet, loginExit >>
    /\ UNCHANGED << cfgVars, driver, cookie_consent_handled, courtRet,
                    courtVars,
                    traceVars, chain, chainFirst, chainPicked, chainTried,
                    submitVia, submitTried, modalSeen, indicatorSeen,
                    consentVars, dateVars, bookVars, epVars >>

\* the username field: four locators, each waited for until present
LoginUsername == LoginChain("login_user", NumUsernameSelectors, "login_pass")

\* the password field: four locators, each waited for until present
LoginPassword == LoginChain("login_pass", NumPasswordSelectors, "login_submit")

\* what the driver does while the form is filled and submitted: typing the
\* credentials, the Enter key, finding the button, the script click and the
\* plain click
SubmitResponses ==
    [ fill : BOOLEAN, enter : BOOLEAN, button : BOOLEAN, js : BOOLEAN,
      click : BOOLEAN ]

\* how the form was submitted, or why login returns False before that
SubmitOutcome(r) ==
    IF ~r.fill THEN "exception"
    ELSE IF r.enter THEN "enter"
    ELSE IF ~r.button THEN "no_button"
    ELSE IF r.js THEN "js"
    ELSE IF r.click THEN "click"
    ELSE "click_failed"

\* mutant: the button is clicked whether or not Enter was sent
SubmitTriedBoth(r) ==
    IF ~r.fill THEN << >>
    ELSE IF ~r.button THEN << "enter" >>
    ELSE IF r.js THEN << "enter", "js" >>
    ELSE << "enter", "js", "click" >>

\* the submit mechanisms login calls, in the order it calls them: Enter on
\* the password field, then, "if not enter_sent", the script click on the
\* button and, in the except of that click, the plain click
SubmitTried(r) ==
    IF ~r.fill THEN << >>
    ELSE IF r.enter \/ ~r.button THEN << "enter" >>
    ELSE IF r.js THEN << "enter", "js" >>
    ELSE << "enter", "js", "click" >>

\* fill in the credentials, tick 'Stay Logged in' when it is there, submit
\* with Enter, or with the button when Enter could not be sent
LoginSubmit ==
    /\ pc = "login_submit"
    /\ \E r \in SubmitResponses :
         LET o == SubmitOutcome(r) IN
         /\ submitTried' = SubmitTried(r)
         /\ IF o \in { "enter", "js", "click" }
            THEN /\ submitVia' = o
                 /\ pc' = "login_wait"
                 /\ UNCHANGED << loginRet, loginExit >>
            ELSE /\ LoginReturn(o)
                 /\ UNCHANGED submitVia
    /\ UNCHANGED << cfgVars, driver, cookie_consent_handled, courtRet,
                    courtVars,
                    traceVars, chain, chainFirst, chainPicked, chainTried,
                    modalSeen, indicatorSeen, consentVars, dateVars, bookVars,
                    epVars >>

\* what the site shows after the form was submitted: whether the login
\* modal goes away within the wait, whether the user name in the top right
\* appears within the wait (or the wait fails otherwise), and whether the
\* element can then be found again and its text read.  The text is read only
\* when the wait succeeded.
WaitResponses ==
    { r \in [ modal_gone : BOOLEAN,
              indicator : { "present", "timeout", "raises" },
              read : BOOLEAN ] :
        r.indicator # "present" => ~r.read }

\* the wait for the modal is in its own try whose except only prints; the
\* wait for the user name returns False on TimeoutException; find_element
\* and .text come before "return True" in the same try, and what they raise,
\* like every other failure of the wait, goes to login's outer except
WaitOutcome(r) ==
    IF r.indicator = "timeout" THEN "no_indicator"
    ELSE IF r.indicator = "raises" THEN "exception"
    ELSE IF r.read THEN "ok"
    ELSE "exception"

\* wait for the modal to go (a failure is only printed), then for the user
\* name in the top right: True when it is there and can be read, False on a
\* timeout, and False from login's except on any other failure
LoginWait ==
    /\ pc = "login_wait"
    /\ \E r \in WaitResponses :
         /\ modalSeen' = IF r.modal_gone THEN "gone" ELSE "stays"
         /\ indicatorSeen' =
              IF r.indicator = "present" THEN "appeared" ELSE "absent"
         /\ LoginReturn(WaitOutcome(r))
    /\ UNCHANGED << cfgVars, driver, cookie_consent_handled, courtRet,
                    courtVars,
                    traceVars, chain, chainFirst, chainPicked, chainTried,
                    submitVia, submitTried, consentVars, dateVars, bookVars,
                    epVars >>

\* mutant: main starts over when a stage returned False
AfterStageRetry(ok, next) == IF ok THEN next ELSE "login"

\* main's "if chapel.login():", "if chapel.select_court_type():" and
\* "if chapel.select_date(BOOKING_DATE):", each with no else: the next stage
\* on True, straight to chapel.close() on False
AfterStage(ok, next) == IF ok THEN next ELSE "close"

\* main after login: the screenshots (failures only printed) and the refresh
\* on True, close on False.  The locals of login end with the call.
MainAfterLogin ==
    /\ pc = "login_done"
    /\ pc' = AfterStage(loginRet = "ok", "refresh")
    /\ chain' = "none" /\ chainFirst' = 0
    /\ chainPicked' = 0 /\ chainTried' = 0
    /\ submitVia' = "none" /\ submitTried' = << >>
    /\ modalSeen' = "none" /\ indicatorSeen' = "none"
    /\ UNCHANGED << cfgVars, driver, mainVars, traceVars, loginExit,
                    consentVars, dateVars, bookVars, epVars >>

\* chapel.driver.refresh(), outside any try
MainRefresh ==
    /\ pc = "refresh"
    /\ \/ pc' = "dropdown_wait" /\ UNCHANGED fault
       \/ pc' = "raised" /\ fault' = "driver"
    /\ UNCHANGED << cfgVars, driver, mainVars, started, loginVars,
                    consentVars, dateVars, bookVars, epVars >>

\* WebDriverWait(chapel.driver, 20).until(dropdown_has_option): a
\* TimeoutException when the option never shows, outside any try
MainDropdownWait ==
    /\ pc = "dropdown_wait"
    /\ \/ pc' = "court_type" /\ UNCHANGED fault
       \/ pc' = "raised" /\ fault' = "timeout"
    /\ UNCHANGED << cfgVars, driver, mainVars, started, loginVars,
                    consentVars, dateVars, bookVars, epVars >>

\* the labels COURT_TYPE may hold: the keys of court_type_map, and one
\* label that is not among them
CourtTypes ==
    { "Squash Courts", "Indoor Tennis", "Outdoor Tennis", "Grass Courts",
      "Padel Courts", "Bowls" }

\* court_type_map.get(self.court_type): "none" for a label without an entry
CourtTypeMap(label) ==
    CASE label = "Squash Courts" -> "1"
      [] label = "Indoor Tennis" -> "2"
      [] label = "Outdoor Tennis" -> "3"
      [] label = "Grass Courts" -> "4"
      [] label = "Padel Courts" -> "9"
      [] OTHER -> "none"

\* the places where the custom-dropdown path can fail: the wait for the
\* 'Booking Area' label, the wait for the dropdown, the click that opens it,
\* the wait for the option and the click on the option
CustomFailures == { "label", "dropdown", "open", "option", "choose" }

\* select_court_type(), the custom-dropdown path: return True when the option
\* was clicked; any failure is printed and the script fallback follows
SelectCourtType ==
    /\ pc = "court_type"
    /\ started' = Append(started, "court_type")
    /\ \/ /\ customExit' = "ok"
          /\ courtRet' = "ok"
          /\ pc' = "ct_done"
       \/ /\ customExit' \in CustomFailures
          /\ pc' = "ct_fallback"
          /\ UNCHANGED courtRet
    /\ UNCHANGED << cfgVars, driver, cookie_consent_handled, loginRet,
                    setterRuns, current_value, fault, loginVars, consentVars,
                    dateVars, bookVars, epVars >>

\* the values the selection control may hold when it is read back
SelectValues == { "1", "2", "3", "4", "9", "" }

\* mutant: the value read back is not compared
ReadBackUnchecked(read, value) == TRUE

\* return current_value == value
ReadBackMatches(read, value) == read = value

\* the script fallback: wait for <select id='soeg_omraede'>, map the label,
\* return False for a label without an entry; else run the script that sets
\* the value and calls onchange, read the value back and compare.  A wait or
\* script that raises goes to the outer except, which returns False.
CourtFallback ==
    /\ pc = "ct_fallback"
    /\ LET value == CourtTypeMap(court_type) IN
       \/ /\ courtRet' = "fail"
          /\ UNCHANGED << setterRuns, current_value >>
       \/ /\ value = "none"
          /\ courtRet' = "fail"
          /\ UNCHANGED << setterRuns, current_value >>
       \/ /\ value # "none"
          /\ setterRuns' = setterRuns + 1
          /\ \/ /\ current_value' \in { "none", "raises" }
                /\ courtRet' = "fail"
             \/ /\ current_value' \in SelectValues
                /\ courtRet' = IF ReadBackMatches(current_value', value)
                               THEN "ok" ELSE "fail"
    /\ pc' = "ct_done"
    /\ UNCHANGED << cfgVars, driver, cookie_consent_handled, loginRet,
                    customExit, traceVars, loginVars, consentVars, dateVars,
                    bookVars, epVars >>

\* main after select_court_type: select_date on True, close on False (after
\* a screenshot whose failure is only printed).  The locals of
\* select_court_type end with the call.
MainAfterCourt ==
    /\ pc = "ct_done"
    /\ pc' = AfterStage(courtRet = "ok", "sd_open")
    /\ customExit' = "none" /\ setterRuns' = 0 /\ current_value' = "none"
    /\ UNCHANGED << cfgVars, driver, cookie_consent_handled, loginRet,
                    courtRet, traceVars, loginVars, consentVars, dateVars,
                    bookVars, epVars >>

\* chapel.close(): driver.quit()
Close ==
    /\ pc = "close"
    /\ driver' = IF driver = "open" THEN "quit" ELSE driver
    /\ pc' = "done"
    /\ UNCHANGED << cfgVars, mainVars, traceVars, loginVars, consentVars,
                    dateVars, bookVars, epVars >>

(***************************************************************************)
(* select_date(date_str)                                                   *)
(***************************************************************************)
\* return False from the except clause, or after a failed verification
SdReturn(why) == sdExit' = why /\ pc' = "sd_done"

\* steps 1-3: click the calendar button, wait for the widget
SdOpen ==
    /\ pc = "sd_open"
    /\ \/ /\ SdReturn("error")
          /\ calOpens' \in { calOpens, calOpens + 1 }
          /\ UNCHANGED opened
       \/ /\ pc' = "sd_read"
          /\ calOpens' = calOpens + 1
          /\ opened' = shown
          /\ UNCHANGED sdExit
    /\ started' = Append(started, "select_date")
    /\ UNCHANGED << cfgVars, driver, mainVars, fault, loginVars, consentVars,
                    shown, banedato, current,
                    navNext, navPrev, navStuck, dayClicks, dayCell, bookVars,
                    epVars >>

\* top of the while loop: read the displayed month and year, compare
SdRead ==
    /\ pc = "sd_read"
    /\ \/ /\ SdReturn("error")
          /\ UNCHANGED current
       \/ /\ current' = << shown[1], PyIndex(month_name, MonthText(shown[2])) >>
          /\ pc' = IF current' = TargetOf(booking_date) THEN "sd_day"
                   ELSE "sd_click"
          /\ UNCHANGED sdExit
    /\ UNCHANGED << cfgVars, driver, mainVars, traceVars, loginVars,
                    consentVars, shown, banedato, opened,
                    navNext, navPrev, navStuck, calOpens, dayClicks, dayCell,
                    bookVars, epVars >>

\* the branch of the loop body: which button is clicked
NavDirection(cur, target) == IF TupleLess(cur, target) THEN "next" ELSE "prev"

\* the month the datepicker shows after a click that moves it
Moved(q, dir) == IF dir = "next" THEN NextMonth(q) ELSE PrevMonth(q)

\* click next or previous, sleep, loop.  The click moves the datepicker one
\* month, or leaves it where it is (a disabled button at the calendar's
\* limit); clicks that moved are counted, one that did not sets navStuck.
SdClick ==
    /\ pc = "sd_click"
    /\ LET dir == NavDirection(current, TargetOf(booking_date)) IN
       \/ /\ SdReturn("error")
          /\ UNCHANGED << shown, navNext, navPrev, navStuck >>
       \/ /\ Moved(shown, dir) \in AllShown
          /\ shown' = Moved(shown, dir)
          /\ navNext' = IF dir = "next" THEN navNext + 1 ELSE navNext
          /\ navPrev' = IF dir = "prev" THEN navPrev + 1 ELSE navPrev
          /\ pc' = "sd_read"
          /\ UNCHANGED << navStuck, sdExit >>
       \/ /\ navStuck' = TRUE
          /\ pc' = "sd_read"
          /\ UNCHANGED << shown, navNext, navPrev, sdExit >>
    /\ UNCHANGED << cfgVars, driver, mainVars, traceVars, loginVars,
                    consentVars, banedato, current, opened,
                    calOpens, dayClicks, dayCell, bookVars, epVars >>

\* what the site may write into the date field when a day cell showing
\* `day` is clicked: that day of the displayed or of an adjacent month, in
\* either number format
FieldValues(day, q) ==
    { MkDate(day, r[2], r[1], p) :
        r \in { q, NextMonth(q), PrevMonth(q) } \cap AllShown, p \in BOOLEAN }

\* the elements of the page that //a[text()='<day>'] can resolve to: the
\* cell of the displayed month, a cell of an adjacent month shown in the same
\* grid, or a link outside the datepicker.  The expression names neither the
\* datepicker nor a month.
DayCells == { "target_month", "adjacent_month", "other" }

\* what the date field may hold after a click on such an element
CellValues(cell, day, q) ==
    CASE cell = "target_month" ->
           { MkDate(day, q[2], q[1], p) : p \in BOOLEAN } \cup { banedato }
      [] cell = "adjacent_month" ->
           (FieldValues(day, q) \ { MkDate(day, q[2], q[1], p) : p \in BOOLEAN })
               \cup { banedato }
      [] OTHER -> { banedato }

\* step 5: wait for //a[text()='<day>'] and click it
SdDay ==
    /\ pc = "sd_day"
    /\ \/ /\ SdReturn("error")
          /\ UNCHANGED << banedato, dayClicks, dayCell >>
       \/ /\ \E cell \in DayCells :
                /\ dayCell' = cell
                /\ banedato' \in
                     CellValues(cell, ParseDate(booking_date).day, shown)
          /\ dayClicks' = dayClicks + 1
          /\ pc' = "sd_verify"
          /\ UNCHANGED sdExit
    /\ UNCHANGED << cfgVars, driver, mainVars, traceVars, loginVars,
                    consentVars, shown, current, opened,
                    navNext, navPrev, navStuck, calOpens, bookVars, epVars >>

\* mutant: the dates are compared after parsing, not as strings
DateMatchesParsed(selected_date, date_str) ==
    /\ selected_date # NoText
    /\ ParseDate(selected_date) = ParseDate(date_str)

\* selected_date == date_str
DateMatches(selected_date, date_str) == selected_date = date_str

\* step 6: read the date field back and compare with the target string
SdVerify ==
    /\ pc = "sd_verify"
    /\ \/ SdReturn("error")
       \/ SdReturn(IF DateMatches(banedato, booking_date) THEN "ok"
                   ELSE "mismatch")
    /\ UNCHANGED << cfgVars, driver, mainVars, traceVars, loginVars,
                    consentVars, shown, banedato, current,
                    opened, navNext, navPrev, navStuck, calOpens, dayClicks,
                    dayCell, bookVars, epVars >>

\* main after select_date: book_court on success, close otherwise.  The
\* locals of select_date end with the call.
MainAfterDate ==
    /\ pc = "sd_done"
    /\ pc' = AfterStage(sdExit = "ok", "bc_scan")
    /\ current' = << 0, 0 >> /\ opened' = << 0, 0 >>
    /\ navNext' = 0 /\ navPrev' = 0 /\ navStuck' = FALSE
    /\ dayCell' = "none"
    /\ UNCHANGED << cfgVars, driver, mainVars, traceVars, loginVars,
                    consentVars, shown, banedato, sdExit,
                    calOpens, dayClicks, bookVars, epVars >>

(***************************************************************************)
(* find_available_courts(target_time) and book_court(target_time)          *)
(***************************************************************************)
\* the default BOOKING_TIME
booking_time == "21:00"

\* Texts are sequences of pieces, the string being their concatenation.
\* display texts of candidate spans: a slot at the target time, the same
\* with leading white space, a slot that ends at the target time, a start
\* that holds the target as a substring ("121:00"), a text without the
\* " - " separator, and an empty text
SlotTexts ==
    { << "21:00", " - ", "22:00" >>,
      << " ", "21:00", " - ", "22:00" >>,
      << "20:00", " - ", "21:00" >>,
      << "1", "21:00", " - ", "22:00" >>,
      << "21:00", "-", "22:00" >>,
      << >> }

\* header texts of the court columns
HeaderTexts ==
    { << "Court 1" >>,
      << "Court 1", "\n", "Click for info" >>,
      << "Court 2" >> }

\* a candidate span of the grid: its text, and the header of its court
\* column (the column or the header may not be resolvable)
Spans ==
    [ text : SlotTexts,
      header : [ found : { TRUE }, text : HeaderTexts ]
               \cup { [ found |-> FALSE, text |-> << >> ] } ]

RECURSIVE GridsOfLen(_)
GridsOfLen(n) ==
    IF n = 0 THEN { << >> }
    ELSE { Append(g, sp) : g \in GridsOfLen(n - 1), sp \in Spans }

\* the candidate spans of a rendered grid, in document order
Grids == UNION { GridsOfLen(n) : n \in 0 .. MaxSpans }

WhiteSpace == { " ", "\n" }

\* str.strip()
RECURSIVE Strip(_)
Strip(t) ==
    IF t = << >> THEN t
    ELSE IF Head(t) \in WhiteSpace THEN Strip(Tail(t))
    ELSE IF t[Len(t)] \in WhiteSpace THEN Strip(SubSeq(t, 1, Len(t) - 1))
    ELSE t

\* str.replace(piece, '')
Remove(t, piece) == SelectSeq(t, LAMBDA x : x # piece)

\* " - " in text
HasSeparator(text) == \E i \in 1 .. Len(text) : text[i] = " - "

\* text.split(" - ", 1)[0]
BeforeSeparator(text) ==
    LET i == CHOOSE k \in 1 .. Len(text) :
                 text[k] = " - " /\ \A j \in 1 .. (k - 1) : text[j] # " - "
    IN  SubSeq(text, 1, i - 1)

\* mutant: the start only has to hold the target time
StartMatchesWithin(text, target_time) ==
    /\ HasSeparator(text)
    /\ \E i \in 1 .. Len(BeforeSeparator(text)) :
           BeforeSeparator(text)[i] = target_time

\* the test on the text of a span: " - " in it and start == target_time
StartMatches(text, target_time) ==
    /\ HasSeparator(text)
    /\ Strip(BeforeSeparator(text)) = << target_time >>

\* header_span.text.strip().replace('Click for info', '').replace('\n', '')
\* .strip()
CourtNumber(header_text) ==
    Strip(Remove(Remove(Strip(header_text), "Click for info"), "\n"))

\* the body of the scan loop for one span: kept, or skipped
SpanKept(sp, target_time) ==
    /\ StartMatches(sp.text, target_time)
    /\ sp.header.found

\* mutant: the scan ends at the first span it cannot process
RECURSIVE ScanUntilFault(_, _, _)
ScanUntilFault(grid, i, target_time) ==
    IF i > Len(grid) THEN << >>
    ELSE IF ~HasSeparator(grid[i].text) \/ ~grid[i].header.found THEN << >>
    ELSE (IF SpanKept(grid[i], target_time)
          THEN << [court |-> CourtNumber(grid[i].header.text), handle |-> i] >>
          ELSE << >>) \o ScanUntilFault(grid, i + 1, target_time)

\* mutant: the pairs are collected last span first
RECURSIVE ScanBackwards(_, _, _)
ScanBackwards(grid, i, target_time) ==
    IF i > Len(grid) THEN << >>
    ELSE ScanBackwards(grid, i + 1, target_time) \o
         (IF SpanKept(grid[i], target_time)
          THEN << [court |-> CourtNumber(grid[i].header.text), handle |-> i] >>
          ELSE << >>)

\* the scan loop from span i on: (court_number, span) pairs, the span named
\* by its place in the document
RECURSIVE ScanFrom(_, _, _)
ScanFrom(grid, i, target_time) ==
    IF i > Len(grid) THEN << >>
    ELSE (IF SpanKept(grid[i], target_time)
          THEN << [court |-> CourtNumber(grid[i].header.text), handle |-> i] >>
          ELSE << >>) \o ScanFrom(grid, i + 1, target_time)

\* the grids the page may show when it is scanned
RenderedGrids == IF rendered.known THEN { rendered.grid } ELSE Grids

\* available = self.find_available_courts(target_time): [] when the grid
\* never appears or the spans cannot be listed, else the result of the scan
BcScan ==
    /\ pc = "bc_scan"
    /\ \/ scanExit' = "no_grid" /\ available' = << >>
       \/ scanExit' = "error" /\ available' = << >>
       \/ /\ scanExit' = "scanned"
          /\ \E grid \in RenderedGrids :
               available' = ScanFrom(grid, 1, booking_time)
    /\ si' = 0
    /\ pc' = "bc_loop"
    /\ started' = Append(started, "scan")
    /\ UNCHANGED << cfgVars, driver, mainVars, fault, loginVars, consentVars,
                    dateVars, rendered, attempted, slotForm, bcRet, clickVars,
                    epVars >>

\* what the last slot selection did is kept for one step
ClickForgotten ==
    clickTried' = << >> /\ clickVia' = "none" /\ formSeen' = "none"

\* mutant: the loop body is entered whether or not a candidate is left
NextSlotAlways(courts, i) == i + 1

\* for court_num, booking_elem in available_courts: the place of the next
\* candidate, 0 when there is none
NextSlot(courts, i) == IF i < Len(courts) THEN i + 1 ELSE 0

\* the for loop over available_courts: the next candidate, or the
\* "No courts could be booked" return
BcNext ==
    /\ pc = "bc_loop"
    /\ IF NextSlot(available, si) # 0
       THEN /\ si' = NextSlot(available, si)
            /\ pc' = "bc_select"
            /\ UNCHANGED bcRet
       ELSE /\ bcRet' = "fail"
            /\ pc' = "bc_done"
            /\ UNCHANGED si
    /\ ClickForgotten
    /\ UNCHANGED << cfgVars, driver, mainVars, traceVars, loginVars,
                    consentVars, dateVars, rendered, scanExit, available,
                    attempted, slotForm, epVars >>

\* what the driver does during one slot selection: the script click, the
\* direct onclick call, the onclick attribute, reading current_url, and
\* whether the player-entry form becomes visible
SelectResponses ==
    [ js : BOOLEAN, onclick : BOOLEAN,
      attr : { "raises", "none", "exec_raises", "ok" },
      url : BOOLEAN, modal : BOOLEAN ]

\* the click mechanisms the loop body calls, in the order it calls them:
\* the script click, in its except the direct onclick call, and in the
\* except of that one the onclick attribute, read and executed
SelectTried(r) ==
    IF r.js THEN << "js" >>
    ELSE IF r.onclick THEN << "js", "onclick" >>
    ELSE << "js", "onclick", "attr" >>

\* the mechanism that went through, "none" when all three failed
SelectVia(r) ==
    IF r.js THEN "js"
    ELSE IF r.onclick THEN "onclick"
    ELSE IF r.attr = "ok" THEN "attr"
    ELSE "none"

\* mutant: a slot that could not be selected is followed by the next one
SelectOutcomeMovesOn(r) ==
    IF ~r.js /\ ~r.onclick /\ r.attr # "ok" THEN "next_slot"
    ELSE IF ~r.url THEN "next_slot"
    ELSE IF ~r.modal THEN "next_slot"
    ELSE "enter_players"

\* the body of the for loop up to the call of enter_players
SelectOutcome(r) ==
    IF ~r.js /\ ~r.onclick /\ r.attr # "ok" THEN "return_false"
    ELSE IF ~r.url THEN "next_slot"
    ELSE IF ~r.modal THEN "return_false"
    ELSE "enter_players"

BcSelect ==
    /\ pc = "bc_select"
    /\ \E r \in SelectResponses :
         LET o == SelectOutcome(r) IN
         /\ pc' = CASE o = "return_false" -> "bc_done"
                    [] o = "next_slot" -> "bc_loop"
                    [] OTHER -> "ep_wait"
         /\ bcRet' = IF o = "return_false" THEN "fail" ELSE bcRet
         /\ slotForm' = (o = "enter_players")
         /\ clickTried' = SelectTried(r)
         /\ clickVia' = SelectVia(r)
         /\ formSeen' = IF SelectVia(r) = "none" \/ ~r.url THEN "none"
                        ELSE IF r.modal THEN "visible" ELSE "hidden"
    /\ attempted' = Append(attempted, available[si].handle)
    /\ UNCHANGED << cfgVars, driver, mainVars, traceVars, loginVars,
                    consentVars, dateVars, rendered, scanExit, available, si,
                    epVars >>

\* complete_booking_flow(): a stub that returns True
complete_booking_flow == TRUE

\* mutant: the result of enter_players is not looked at
AfterPlayersUnchecked(players_ok) ==
    IF complete_booking_flow THEN "ok" ELSE "next_slot"

\* mutant: a failed enter_players sends book_court on to the next slot
AfterPlayersNextSlot(players_ok) ==
    IF players_ok /\ complete_booking_flow THEN "ok" ELSE "next_slot"

\* what book_court returns once enter_players has returned
AfterPlayers(players_ok) ==
    IF ~players_ok THEN "fail"
    ELSE IF complete_booking_flow THEN "ok"
    ELSE "next_slot"

BcAfterPlayers ==
    /\ pc = "ep_done"
    /\ LET o == AfterPlayers(epExit = "ok") IN
       /\ pc' = IF o = "next_slot" THEN "bc_loop" ELSE "bc_done"
       /\ bcRet' = IF o = "next_slot" THEN bcRet ELSE o
    /\ UNCHANGED << cfgVars, driver, mainVars, traceVars, loginVars,
                    consentVars, dateVars, rendered, scanExit, available, si,
                    attempted, slotForm, clickVars, epVars >>

\* main ignores what book_court returns and closes the session
MainAfterBook ==
    /\ pc = "bc_done"
    /\ pc' = "close"
    /\ ClickForgotten
    /\ UNCHANGED << cfgVars, driver, mainVars, traceVars, loginVars,
                    consentVars, dateVars, scanVars, epVars >>

(***************************************************************************)
(* enter_players()                                                         *)
(***************************************************************************)
\* a return of enter_players: True at "ok", False at every other place
EpReturn(why) == epExit' = why /\ pc' = "ep_done"

\* wait for the player form, then used_names = set(), rejected_names = set()
EpWait ==
    /\ pc = "ep_wait"
    /\ started' = Append(started, "players")
    /\ \/ /\ EpReturn("exception")
          /\ UNCHANGED << idx, used, rejected, bound >>
       \/ /\ used' = {} /\ rejected' = {}
          /\ idx' = 0
          /\ bound' = [f \in 1 .. max_players |-> NoName]
          /\ pc' = "ep_field"
          /\ UNCHANGED epExit
    /\ ClickForgotten
    /\ UNCHANGED << cfgVars, driver, mainVars, fault, loginVars, consentVars,
                    dateVars, scanVars, ni, name, signal, accepted, epFault,
                    finalRead, basketClicks, tncRead, confirmClicks, looked,
                    basketPage, receipt >>

\* top of the field loop: find the input of opponent idx+1
EpField ==
    /\ pc = "ep_field"
    /\ \/ /\ EpReturn("field_missing")
          /\ UNCHANGED ni
       \/ /\ ni' = 0
          /\ pc' = "ep_names"
          /\ UNCHANGED epExit
    /\ signal' = NoSignal
    /\ UNCHANGED << cfgVars, driver, mainVars, traceVars, loginVars,
                    consentVars, dateVars, bookVars, idx, name, used,
                    rejected, bound, accepted, epFault, finalRead,
                    basketClicks, tncRead, confirmClicks, looked, basketPage,
                    receipt >>

\* mutant: the rejection memory is not consulted
EligibleIgnoringRejected(n, u, r) == n \notin u

\* mutant: the used set is not consulted
EligibleIgnoringUsed(n, u, r) == n \notin r

\* if name in used_names or name in rejected_names: continue
Eligible(n, u, r) == n \notin u /\ n \notin r

\* mutant: the roster is walked from its end
NextEligibleFromEnd(roster, from, u, r) ==
    LET later == { j \in (from + 1) .. Len(roster) : Eligible(roster[j], u, r) }
    IN  IF later = {} THEN 0
        ELSE CHOOSE j \in later : \A k \in later : j >= k

\* the next roster position after `from` whose name is tried, 0 when the
\* name loop runs out
NextEligible(roster, from, u, r) ==
    LET later == { j \in (from + 1) .. Len(roster) : Eligible(roster[j], u, r) }
    IN  IF later = {} THEN 0
        ELSE CHOOSE j \in later : \A k \in later : j <= k

\* mutant: a field without a player does not end the assignment
AfterFieldNoCheck(player_found, i) ==
    IF i = max_players THEN "ep_final" ELSE "ep_field"

\* the end of the name loop for a field, i fields done: return False when
\* no player was found, else the next field, or the final check after the last
AfterField(player_found, i) ==
    IF ~player_found THEN "ep_done"
    ELSE IF i = max_players THEN "ep_final"
    ELSE "ep_field"

\* the name loop: skip used and rejected names, clear the field and type the
\* next one; when the roster runs out without an acceptance, return False
EpNext ==
    /\ pc = "ep_names"
    /\ LET j == NextEligible(player_names, ni, used, rejected)
           after == AfterField(FALSE, idx + 1)
       IN
       IF j = 0
       THEN /\ IF after = "ep_done"
               THEN EpReturn("no_player") /\ UNCHANGED idx
               ELSE pc' = after /\ idx' = idx + 1 /\ UNCHANGED epExit
            /\ UNCHANGED << ni, name >>
       ELSE /\ ni' = j
            /\ name' = player_names[j]
            /\ \/ pc' = "ep_typed" /\ UNCHANGED epExit
               \/ EpReturn("exception")
            /\ UNCHANGED idx
    /\ signal' = NoSignal
    /\ UNCHANGED << cfgVars, driver, mainVars, traceVars, loginVars,
                    consentVars, dateVars, bookVars, used, rejected, bound,
                    accepted, epFault, finalRead, basketClicks, tncRead,
                    confirmClicks, looked, basketPage, receipt >>

\* what the driver shows after the name was typed: whether the Search button
\* could be clicked, the error box, whether the input could be found again,
\* the tooltip text and the value of the input.  A read the code does not
\* get to (the error box after a failed Search click, the input after a
\* displayed error, the tooltip and the value when the input is not found
\* again) has no answer, and its field is left at "none", FALSE or "empty".
LookupResponses ==
    { r \in [ search : BOOLEAN, error : { "none", "shown", "raises" },
              refind : BOOLEAN, tooltip : BOOLEAN,
              value : { "empty", "text", "raises" } ] :
        /\ ~r.search => r.error = "none"
        /\ (~r.search \/ r.error = "shown") => ~r.refind
        /\ ~r.refind => (~r.tooltip /\ r.value = "empty") }

\* mutant: the error box is not looked at
ClassifyErrorIgnored(r) ==
    IF ~r.search THEN "skip"
    ELSE IF ~r.refind THEN "skip"
    ELSE IF r.value = "text" /\ ~r.tooltip THEN "accept"
    ELSE "reject"

\* the verdict of one lookup: "skip" is a continue that records nothing
Classify(r) ==
    IF ~r.search THEN "skip"
    ELSE IF r.error = "shown" THEN "reject"
    ELSE IF ~r.refind THEN "skip"
    ELSE IF r.value = "text" /\ ~r.tooltip THEN "accept"
    ELSE "reject"

\* mutant: every accepted name lands in the first field
BindFirst(fields, f, n) == [fields EXCEPT ![1] = n]

\* the name the form holds for opponent field f once it accepted n
Bind(fields, f, n) == [fields EXCEPT ![f] = n]

\* click Search, inspect the acceptance signal, record the verdict
EpLookup ==
    /\ pc = "ep_typed"
    /\ \E r \in LookupResponses :
         LET c == Classify(r) IN
         /\ signal' = r
         /\ looked' = IF r.search THEN looked \cup { name } ELSE looked
         /\ \/ /\ c = "skip"
               /\ epFault' = TRUE
               /\ pc' = "ep_names"
               /\ UNCHANGED << idx, used, rejected, bound, accepted >>
            \/ /\ c = "reject"
               /\ rejected' = rejected \cup { name }
               /\ pc' = "ep_names"
               /\ UNCHANGED << idx, used, bound, accepted, epFault >>
            \/ /\ c = "accept"
               /\ used' = used \cup { name }
               /\ accepted' = accepted \cup { name }
               /\ bound' = Bind(bound, idx + 1, name)
               /\ idx' = idx + 1
               /\ pc' = AfterField(TRUE, idx + 1)
               /\ UNCHANGED << rejected, epFault >>
    /\ UNCHANGED << cfgVars, driver, mainVars, traceVars, loginVars,
                    consentVars, dateVars, bookVars, epExit, ni, name,
                    finalRead, basketClicks, tncRead, confirmClicks,
                    basketPage, receipt >>

\* what each player field holds when it is read again after the loop:
\* a value, nothing, or the field cannot be found
FieldReads == [ 1 .. max_players -> { "text", "empty", "missing" } ]

\* the readings the final loop makes: it returns at the first field that
\* is empty or cannot be found
RECURSIVE ReadFrom(_, _)
ReadFrom(values, f) ==
    IF f > Len(values) THEN << >>
    ELSE IF values[f] # "text" THEN << values[f] >>
    ELSE << values[f] >> \o ReadFrom(values, f + 1)

\* mutant: a field that cannot be found is passed over
FieldsFilledWhereFound(values) ==
    \A f \in 1 .. Len(values) : values[f] # "empty"

\* the result of the final loop: every field was found and holds a value
FieldsFilled(values) ==
    \A f \in 1 .. Len(values) : values[f] = "text"

\* after the loop: every player field must still hold a value
EpFinal ==
    /\ pc = "ep_final"
    /\ \E values \in FieldReads :
         /\ finalRead' = ReadFrom(values, 1)
         /\ IF FieldsFilled(values)
            THEN pc' = "ep_basket" /\ UNCHANGED epExit
            ELSE EpReturn("final_check")
    /\ signal' = NoSignal
    /\ UNCHANGED << cfgVars, driver, mainVars, traceVars, loginVars,
                    consentVars, dateVars, bookVars, idx, ni, name, used,
                    rejected, bound, accepted, epFault, basketClicks, tncRead,
                    confirmClicks, looked, basketPage, receipt >>

\* find and click 'Add to basket', then wait for the basket page (the
\* terms checkbox): return False when the button is not there, when the click
\* raises, or when the page does not load within the wait
EpBasket ==
    /\ pc = "ep_basket"
    /\ started' = Append(started, "basket")
    /\ \/ /\ EpReturn("basket")
          /\ \/ UNCHANGED << basketClicks, basketPage >>
             \/ basketClicks' = basketClicks + 1 /\ basketPage' = "timeout"
       \/ /\ basketClicks' = basketClicks + 1
          /\ basketPage' = "loaded"
          /\ pc' = "ep_terms"
          /\ UNCHANGED epExit
    /\ UNCHANGED << cfgVars, driver, mainVars, fault, loginVars, consentVars,
                    dateVars, bookVars, idx, ni, name, signal, used, rejected,
                    bound, accepted, epFault, finalRead, tncRead,
                    confirmClicks, looked, receipt >>

\* what the driver does in the terms step: whether the wait for the checkbox
\* succeeds, and what each read of its checked state gives: after the label
\* click, at the top of step 2, after the script set, at the top of step 3,
\* after the script click, and in the final check.  A read the code does not
\* get to (after the set or the click when the checkbox was read as checked
\* or could not be read, every read when the wait failed) has no answer and
\* is left at "raises".
TermsResponses ==
    { r \in [ wait : BOOLEAN,
              after_label : { "checked", "unchecked", "raises" },
              step2 : { "checked", "unchecked", "raises" },
              after_set : { "checked", "unchecked", "raises" },
              step3 : { "checked", "unchecked", "raises" },
              after_click : { "checked", "unchecked", "raises" },
              final : { "checked", "unchecked", "raises" } ] :
        /\ r.step2 # "unchecked" => r.after_set = "raises"
        /\ r.step3 # "unchecked" => r.after_click = "raises"
        /\ ~r.wait => /\ r.after_label = "raises" /\ r.step2 = "raises"
                      /\ r.step3 = "raises" /\ r.final = "raises" }

\* the state of the checkbox as a read gave it, or `before` when it raised
ReadOr(read, before) == IF read = "raises" THEN before ELSE read

\* the last state of the checkbox the terms step has read, "unread" when
\* every read raised
LastRead(r) ==
    LET one == ReadOr(r.after_label, "unread")
        two == ReadOr(r.after_set, ReadOr(r.step2, one))
        three == ReadOr(r.after_click, ReadOr(r.step3, two))
    IN  ReadOr(r.final, three)

\* how the terms step ends: False from the outer except when the wait for
\* the checkbox fails, False when the final check reads it as not checked,
\* and on to 'Confirm Booking' otherwise; a final read that raises is
\* printed by the inner except and nothing more
TermsOutcome(r) ==
    IF ~r.wait THEN "terms"
    ELSE IF r.final = "unchecked" THEN "terms"
    ELSE "ep_confirm"

\* what the terms step can leave: the last state read and where it goes
TermsResults ==
    { [ read |-> LastRead(r), to |-> TermsOutcome(r) ] : r \in TermsResponses }

\* tick the terms checkbox: three attempts, each followed by a read of its
\* state; tncRead is the last state read ("unread" when every read raised,
\* "none" before the terms step)
EpTerms ==
    /\ pc = "ep_terms"
    /\ started' = Append(started, "terms")
    /\ \E o \in TermsResults :
         /\ tncRead' = o.read
         /\ IF o.to = "ep_confirm"
            THEN pc' = "ep_confirm" /\ UNCHANGED epExit
            ELSE EpReturn(o.to)
    /\ UNCHANGED << cfgVars, driver, mainVars, fault, loginVars, consentVars,
                    dateVars, bookVars, idx, ni, name, signal, used, rejected,
                    bound, accepted, epFault, finalRead, basketClicks,
                    confirmClicks, looked, basketPage, receipt >>

\* find and click 'Confirm Booking'
EpConfirm ==
    /\ pc = "ep_confirm"
    /\ started' = Append(started, "confirm")
    /\ \/ /\ EpReturn("confirm")
          /\ UNCHANGED confirmClicks
       \/ /\ confirmClicks' = confirmClicks + 1
          /\ pc' = "ep_receipt"
          /\ UNCHANGED epExit
    /\ UNCHANGED << cfgVars, driver, mainVars, fault, loginVars, consentVars,
                    dateVars, bookVars, idx, ni, name, signal, used, rejected,
                    bound, accepted, epFault, finalRead, basketClicks, tncRead,
                    looked, basketPage, receipt >>

\* mutant: enter_players returns True whether or not the receipt showed
ReceiptResultAlways(seen) == "ok"

\* self.wait.until(receipt_page_loaded): return True once the receipt URL or
\* the 'Your Receipt' heading is seen; the TimeoutException of the wait goes
\* to the outer except, which returns False
ReceiptResult(seen) == IF seen THEN "ok" ELSE "exception"

\* wait for the receipt page: True when it is detected
EpReceipt ==
    /\ pc = "ep_receipt"
    /\ \E seen \in BOOLEAN :
         /\ receipt' = IF seen THEN "detected" ELSE "timeout"
         /\ EpReturn(ReceiptResult(seen))
    /\ UNCHANGED << cfgVars, driver, mainVars, traceVars, loginVars,
                    consentVars, dateVars, bookVars, idx, ni, name, signal,
                    used, rejected, bound, accepted, epFault, finalRead,
                    basketClicks, tncRead, confirmClicks, looked, basketPage >>

(***************************************************************************)
(* Specifications.                                                         *)
(***************************************************************************)
Next ==
    \/ Construct
    \/ LoginGet \/ HandleCookieConsent \/ LoginLink \/ LoginModal
    \/ LoginUsername \/ LoginPassword \/ LoginSubmit \/ LoginWait
    \/ MainAfterLogin \/ MainRefresh \/ MainDropdownWait
    \/ SelectCourtType \/ CourtFallback \/ MainAfterCourt
    \/ SdOpen \/ SdRead \/ SdClick \/ SdDay \/ SdVerify \/ MainAfterDate
    \/ BcScan \/ BcNext \/ BcSelect \/ BcAfterPlayers \/ MainAfterBook
    \/ EpWait \/ EpField \/ EpNext \/ EpLookup \/ EpFinal \/ EpBasket
    \/ EpTerms \/ EpConfirm \/ EpReceipt
    \/ Close

Spec == Init /\ [][Next]_vars

\* the date-selection stage on its own: select_date is entered with any
\* booking date and the datepicker showing any month
InitDate ==
    /\ InitRun
    /\ pc = "sd_open"
    /\ driver = "open"
    /\ credentials = TRUE
    /\ player_names = << >>
    /\ use_visitors = FALSE
    /\ court_type = DefaultCourtType
    /\ booking_date \in AllBookingDates
    /\ rendered = NoPage
    /\ shown \in AllShown

NextDate == SdOpen \/ SdRead \/ SdClick \/ SdDay \/ SdVerify

SpecDate == InitDate /\ [][NextDate]_vars

\* the loop is a straight-line program: each step is taken when it can be
SpecDateFair == SpecDate /\ WF_vars(NextDate)

\* the slot scan and the attempt loop on their own: book_court is entered
\* with the page showing any grid, and runs up to the call of enter_players
InitScan ==
    /\ InitRun
    /\ pc = "bc_scan"
    /\ driver = "open"
    /\ credentials = TRUE
    /\ player_names = << >>
    /\ use_visitors = FALSE
    /\ court_type = DefaultCourtType
    /\ booking_date = DefaultBookingDate
    /\ shown = TargetOf(DefaultBookingDate)
    /\ rendered \in { [ known |-> TRUE, grid |-> g ] : g \in Grids }

NextScan == BcScan \/ BcNext \/ BcSelect

SpecScan == InitScan /\ [][NextScan]_vars

\* login on its own, with handle_cookie_consent called again on the same
\* object after login's own call
InitConsent ==
    /\ InitRun
    /\ pc = "login"
    /\ driver = "open"
    /\ credentials = TRUE
    /\ player_names = << >>
    /\ use_visitors = FALSE
    /\ court_type = DefaultCourtType
    /\ booking_date = DefaultBookingDate
    /\ shown = TargetOf(DefaultBookingDate)
    /\ rendered = NoPage

NextConsent ==
    \/ LoginGet \/ HandleCookieConsent \/ ConsentAgain \/ LoginLink
    \/ LoginModal \/ LoginUsername \/ LoginPassword \/ LoginSubmit
    \/ LoginWait

SpecConsent == InitConsent /\ [][NextConsent]_vars

\* select_court_type on its own, with any COURT_TYPE
InitCourt ==
    /\ InitRun
    /\ pc = "court_type"
    /\ driver = "open"
    /\ credentials = TRUE
    /\ player_names = << >>
    /\ use_visitors = FALSE
    /\ court_type \in CourtTypes
    /\ booking_date = DefaultBookingDate
    /\ shown = TargetOf(DefaultBookingDate)
    /\ rendered = NoPage

NextCourt == SelectCourtType \/ CourtFallback

SpecCourt == InitCourt /\ [][NextCourt]_vars

\* the whole run with USE_VISITORS=true
InitVisitors == InitWith(TRUE)

SpecVisitors == InitVisitors /\ [][Next]_vars

(***************************************************************************)
(* The claims.                                                             *)
(***************************************************************************)
\* a step of the name loop that types a candidate name into the field
TypesName == pc = "ep_names" /\ ni' # ni

\* C1: once a name is in the rejected set it stays there for the rest of
\* the run, and no step types a name that is in the rejected set, into
\* the same field or a later one.
C1_RejectedNeverResubmitted ==
    [][ /\ rejected \subseteq rejected'
        /\ TypesName => name' \notin rejected ]_vars

\* C1 witness: a later field is being tried while the first roster name,
\* rejected at field 1, has been passed over.
C1_Witness ==
    /\ pc = "ep_typed"
    /\ idx >= 1
    /\ ~epFault
    /\ player_names[1] \in rejected
    /\ name # player_names[1]

\* C2 (as claimed): book_court gives up only after every candidate slot
\* was attempted; a slot that fails after its selection is followed by the
\* next candidate.
C2_FailedSlotMovesOn ==
    (pc = "bc_done" /\ bcRet = "fail") => si = Len(available)

\* C3 (as claimed): whenever main has exited, normally or by an exception,
\* the driver session it acquired has been released.
C3_DriverReleasedOnExit ==
    pc \in { "done", "raised" } => driver # "open"

\* C4 (as claimed): select_date terminates, whatever the calendar does.
C4_SelectDateTerminates == <>(pc = "sd_done")

Max(a, b) == IF a >= b THEN a ELSE b

\* the spec's delta, from the month displayed when the datepicker opened
NavDelta == MonthDelta(opened, TargetOf(booking_date))

\* C5: while every click has moved the calendar by one month, the clicks
\* emitted never exceed |delta| and only go in the direction of delta; when
\* the loop ends there were exactly delta 'next' clicks and no 'previous'
\* click (delta > 0), exactly -delta 'previous' and no 'next' (delta < 0),
\* or none at all (delta = 0).
C5_NavigationClicks ==
    (pc \in { "sd_read", "sd_click", "sd_day" } /\ ~navStuck) =>
        /\ navNext <= Max(NavDelta, 0)
        /\ navPrev <= Max(-NavDelta, 0)
        /\ pc = "sd_day" =>
              /\ navNext = Max(NavDelta, 0)
              /\ navPrev = Max(-NavDelta, 0)

\* C5 witness: the loop ended after walking back across a year boundary.
C5_Witness ==
    /\ pc = "sd_day"
    /\ ~navStuck
    /\ navPrev > 12
    /\ opened[1] > TargetOf(booking_date)[1]

\* C6: select_date returns True only when the date field, read after the
\* one day click, holds exactly the target string; a field holding anything
\* else gives a failure, and the calendar is opened and a day clicked at
\* most once.
C6_VerifiedOnce ==
    /\ sdExit = "ok" => (banedato = booking_date /\ dayClicks = 1)
    /\ (pc = "sd_done" /\ banedato # booking_date) => sdExit # "ok"
    /\ calOpens <= 1
    /\ dayClicks <= 1

\* C6 witness: the field holds the target date in another number format and
\* select_date has returned the mismatch.
C6_Witness ==
    /\ pc = "sd_done"
    /\ sdExit = "mismatch"
    /\ dayClicks = 1
    /\ banedato # NoText
    /\ ParseDate(banedato) = ParseDate(booking_date)

\* C7: used and rejected are disjoint in every state.
C7_UsedRejectedDisjoint == used \cap rejected = {}

\* C7 witness: both sets hold a name while the assignment is running.
C7_Witness ==
    /\ pc \in { "ep_field", "ep_names", "ep_typed" }
    /\ used # {}
    /\ rejected # {}

\* C8: the assignment completes, and a booking is reported, only when the
\* site gave its acceptance signal for at least three different roster
\* names; with fewer acceptable names neither happens.
C8_NeedsThreeAcceptedNames ==
    (idx = max_players \/ epExit = "ok" \/ bcRet = "ok") =>
        Cardinality(accepted \cap Range(player_names)) >= max_players

\* C8 witness: two names were accepted, the third field found no name, and
\* book_court has returned failure.
C8_Witness ==
    /\ pc = "bc_done"
    /\ bcRet = "fail"
    /\ epExit = "no_player"
    /\ Cardinality(accepted) = 2

\* a field the name loop has left without a player
FieldLeftUnbound == \E f \in 1 .. max_players : f <= idx /\ bound[f] = NoName

\* C9: when a field ran out of names, nothing is committed: no 'Add to
\* basket' click, no terms step, no 'Confirm Booking' click, and no
\* successful booking.
C9_NoPartialCommit ==
    (epExit = "no_player" \/ FieldLeftUnbound) =>
        /\ basketClicks = 0
        /\ tncRead = "none"
        /\ confirmClicks = 0
        /\ epExit # "ok"
        /\ bcRet # "ok"

\* C9 witness: the roster ran out at a later field, earlier fields are bound.
C9_Witness ==
    /\ epExit = "no_player"
    /\ idx >= 1
    /\ bound[1] # NoName

\* C10: a rejected name is recorded and the next untried name goes to the
\* same field: with roster [A, B, C], every lookup giving a verdict and only
\* B rejected, enter_players ends with field 1 bound to A, field 2 to C,
\* field 3 unbound, the assignment failed, and rejected = {B}.
C10_RejectScenario ==
    ( /\ player_names = << 1, 2, 3 >>
      /\ pc = "ep_done"
      /\ epExit \notin { "exception", "field_missing" }
      /\ ~epFault
      /\ rejected = { 2 } ) =>
        /\ bound = << 1, 3, NoName >>
        /\ used = { 1, 3 }
        /\ idx = 2
        /\ epExit = "no_player"

\* C10 witness: the scenario has run to its end.
C10_Witness ==
    /\ player_names = << 1, 2, 3 >>
    /\ pc = "ep_done"
    /\ ~epFault
    /\ rejected = { 2 }
    /\ epExit = "no_player"
    /\ bound[2] = 3

\* the names of a roster are all different
Distinct(roster) ==
    \A i, j \in 1 .. Len(roster) : i # j => roster[i] # roster[j]

\* a lookup step that accepts the name in hand
AcceptsName == pc = "ep_typed" /\ name \in used' /\ name \notin used

NameRejected == name \in rejected /\ name \notin used

NameAccepted ==
    /\ name \in used /\ name \notin rejected
    /\ idx >= 1 /\ bound[idx] = name

\* C12: after a lookup whose Search click went through: a displayed error
\* text rejects the name; with no error displayed and the field found
\* again, a tooltip text with an empty value rejects it and a value with no
\* tooltip text accepts it.  The two combinations left open are both
\* rejections: a tooltip text with a value, and no tooltip text with an
\* empty value.
C12_SignalClassified ==
    (signal # NoSignal /\ signal.search) =>
        /\ signal.error = "shown" => NameRejected
        /\ (signal.error # "shown" /\ signal.refind) =>
              /\ (signal.tooltip /\ signal.value = "empty") => NameRejected
              /\ (~signal.tooltip /\ signal.value = "text") => NameAccepted
              /\ (signal.tooltip /\ signal.value = "text") => NameRejected
              /\ (~signal.tooltip /\ signal.value = "empty") => NameRejected

\* C12 witness: a lookup came back with a tooltip text and a value in the
\* field, and the name was rejected.
C12_Witness ==
    /\ signal # NoSignal
    /\ signal.search /\ signal.error = "none" /\ signal.refind
    /\ signal.tooltip /\ signal.value = "text"
    /\ name \in rejected

\* every player field was read and held a value
AllFieldsRead ==
    /\ Len(finalRead) = max_players
    /\ \A f \in 1 .. max_players : finalRead[f] = "text"

\* C13: enter_players goes on to 'Add to basket' only after the final loop
\* has read a value in every player field; a field read as empty or not
\* found makes enter_players return False with nothing added to the basket;
\* and the final loop runs only once all three fields are bound.
C13_FinalRecheck ==
    /\ ( \/ pc \in { "ep_basket", "ep_terms", "ep_confirm", "ep_receipt" }
         \/ basketClicks > 0
         \/ epExit = "ok" ) => AllFieldsRead
    /\ (finalRead # << >> /\ ~AllFieldsRead) =>
          /\ pc \in { "ep_done", "bc_done", "close", "done" }
          /\ epExit = "final_check"
          /\ basketClicks = 0
          /\ bcRet # "ok"
    /\ finalRead # << >> =>
          \A f \in 1 .. max_players : bound[f] # NoName

\* C13 witness: the second field was found empty by the final loop.
C13_Witness ==
    /\ pc = "ep_done"
    /\ epExit = "final_check"
    /\ finalRead = << "text", "empty" >>
    /\ basketClicks = 0

\* C14 (as claimed): in every locator chain the first descriptor that
\* resolves is the one used, and no later descriptor is tried after it.
C14_FirstResolvingUsed ==
    (chain # "none" /\ chainFirst # 0) =>
        /\ chainPicked = chainFirst
        /\ chainTried = chainFirst

\* C15: a chain whose descriptors all time out finds nothing and raises
\* nothing: after the consent chain the session is marked as handled and
\* login goes on to the login link; after one of login's three chains
\* login has returned False from its 'not found' check.
C15_AllTimedOut ==
    (chain # "none" /\ chainFirst = 0) =>
        /\ chainPicked = 0
        /\ chain = "consent" =>
              /\ cookie_consent_handled
              /\ pc = "login_link"
              /\ loginRet = "none"
        /\ chain # "consent" =>
              /\ pc = "login_done"
              /\ loginRet = "fail"
              /\ loginExit = "not_found"

\* C15 witness: no consent button was found, the login link was, and no
\* username locator resolved.
C15_Witness ==
    /\ chain = "login_user"
    /\ chainFirst = 0
    /\ cookie_consent_handled
    /\ loginRet = "fail"

\* C16 (as claimed): no court identifier appears twice in the result of
\* find_available_courts.
C16_NoCourtTwice ==
    \A i, j \in 1 .. Len(available) :
        i # j => available[i].court # available[j].court

\* the texts of SlotTexts of the form "<start> - <end>" whose start, white
\* space aside, is the target time
MatchingTexts ==
    { << "21:00", " - ", "22:00" >>, << " ", "21:00", " - ", "22:00" >> }

\* the candidate span an entry of the result came from
SpanOf(entry) == rendered.grid[entry.handle]

\* C17: every entry of the result comes from a candidate span of the grid
\* whose text is "<start> - <end>" with the target time as its start; a
\* span with another start, or one that only holds the target time inside
\* its start, is never returned.
C17_StartIsTarget ==
    scanExit # "none" =>
        \A k \in 1 .. Len(available) :
            /\ available[k].handle \in 1 .. Len(rendered.grid)
            /\ SpanOf(available[k]).text \in MatchingTexts

\* C17 witness: the grid holds a "121:00 - 22:00" span and a
\* "21:00 - 22:00" span; only the second is returned.
C17_Witness ==
    /\ scanExit = "scanned"
    /\ Len(rendered.grid) = 2
    /\ rendered.grid[1].text = << "1", "21:00", " - ", "22:00" >>
    /\ rendered.grid[1].header.found
    /\ Len(available) = 1
    /\ available[1].handle = 2

\* a span the scan can make nothing of: no " - " in its text, or no header
Malformed(sp) == ~HasSeparator(sp.text) \/ ~sp.header.found

\* C18: once the spans were listed, every span at the target time whose
\* header resolves is in the result, whatever malformed spans stand before
\* or after it in the grid.
C18_MalformedSkipped ==
    scanExit = "scanned" =>
        \A i \in 1 .. Len(rendered.grid) :
            ( /\ rendered.grid[i].text \in MatchingTexts
              /\ rendered.grid[i].header.found ) =>
                \E k \in 1 .. Len(available) : available[k].handle = i

\* C18 witness: a span without a resolvable header stands before a span at
\* the target time, and the second is returned.
C18_Witness ==
    /\ scanExit = "scanned"
    /\ Len(rendered.grid) = 2
    /\ Malformed(rendered.grid[1])
    /\ rendered.grid[1].text \in MatchingTexts
    /\ Len(available) = 1
    /\ available[1].handle = 2

\* C19: the result lists the spans in document order, and the slots
\* attempted so far are the first entries of the result, in its order.
C19_ScanOrderIsAttemptOrder ==
    /\ \A k \in 1 .. (Len(available) - 1) :
           available[k].handle < available[k + 1].handle
    /\ Len(attempted) <= Len(available)
    /\ \A k \in 1 .. Len(attempted) : attempted[k] = available[k].handle

\* C19 witness: two slots were found and both have been attempted.
C19_Witness ==
    /\ Len(available) = 2
    /\ attempted = << 1, 2 >>

\* C20: when the scan gave no slot, whether the grid never appeared, the
\* spans could not be listed or none matched, book_court returns False
\* with no slot clicked, enter_players never entered, and nothing clicked
\* in the booking form.
C20_NoSlotNoAction ==
    (scanExit # "none" /\ available = << >>) =>
        /\ pc \in { "bc_loop", "bc_done", "close", "done" }
        /\ pc # "bc_loop" => bcRet = "fail"
        /\ attempted = << >>
        /\ epExit = "none"
        /\ idx = 0 /\ name = NoName
        /\ basketClicks = 0 /\ tncRead = "none" /\ confirmClicks = 0

\* C20 witness: the court grid never appeared and book_court has returned.
C20_Witness ==
    /\ pc = "bc_done"
    /\ scanExit = "no_grid"
    /\ bcRet = "fail"

\* the stages in the order main and enter_players go through them
StageOrder ==
    << "login", "court_type", "select_date", "scan", "players", "basket",
       "terms", "confirm" >>

\* the stages started so far are the first stages of StageOrder, in order
StartedInOrder ==
    /\ Len(started) <= Len(StageOrder)
    /\ \A k \in 1 .. Len(started) : started[k] = StageOrder[k]

\* stage s has been started
Started(s) == \E k \in 1 .. Len(started) : started[k] = s

\* the ordering of the stages up to the terms step: each stage is started
\* only after the one before it has succeeded
OrderedUpToTerms ==
    /\ StartedInOrder
    /\ Started("court_type") => loginRet = "ok"
    /\ Started("select_date") => courtRet = "ok"
    /\ Started("scan") => sdExit = "ok"
    /\ Started("players") => slotForm
    /\ Started("basket") => (idx = max_players /\ AllFieldsRead)
    /\ Started("terms") => basketPage = "loaded"

\* C21 (as claimed): the stages are started in order, each only after the
\* one before it has succeeded: court type after a successful login, date
\* after the court type, scan after the date, player entry after a slot was
\* selected, 'Add to basket' after every player field was filled, the terms
\* step after the basket page loaded, and 'Confirm Booking' only after the
\* terms were accepted.
C21_StagesInOrder ==
    /\ OrderedUpToTerms
    /\ Started("confirm") => tncRead = "checked"

RunDecided ==
    \/ loginRet = "fail"
    \/ courtRet = "fail"
    \/ sdExit \notin { "none", "ok" }
    \/ epExit \notin { "none", "ok" }
    \/ bcRet \in { "fail", "ok" }

\* C23: no stage is started twice; once a stage has returned False, or the
\* booking was confirmed, no stage is started any more, and what is left of
\* the run is the return to main and the release of the driver; and nothing
\* follows the end of main.
C23_NoRestart ==
    /\ [](/\ \A j, k \in 1 .. Len(started) : started[j] = started[k] => j = k
          /\ RunDecided =>
               pc \in { "login_done", "ct_done", "sd_done", "ep_done",
                        "bc_done", "close", "done" })
    /\ [][ /\ RunDecided => started' = started
           /\ pc \in { "done", "raised" } => pc' = pc ]_vars

\* C23 witness: the court type could not be selected after a successful
\* login, and the run has ended with the driver released.
C23_Witness ==
    /\ pc = "done"
    /\ started = << "login", "court_type" >>
    /\ courtRet = "fail"
    /\ driver = "quit"

C25_TimeoutsBecomeFailures == fault # "timeout"

\* C26 (as claimed): with USE_VISITORS=true no roster name is typed into an
\* opponent field.
C26_VisitorsNoRosterName == use_visitors => name = NoName

\* C27 (as claimed): the day element clicked is the cell of the target
\* month.
C27_DayCellOfTargetMonth == dayCell \in { "none", "target_month" }

\* C28: 'Confirm Booking' is clicked at most once, enter_players is entered
\* at most once, and once enter_players has returned book_court returns
\* without going to another slot.
C28_OneAttempt ==
    /\ [](/\ confirmClicks <= 1
          /\ Cardinality({ k \in 1 .. Len(started) :
                             started[k] = "players" }) <= 1)
    /\ [][ pc = "ep_done" =>
             /\ pc' = "bc_done"
             /\ bcRet' \in { "ok", "fail" }
             /\ UNCHANGED << si, attempted >> ]_vars

\* C28 witness: enter_players failed at the first of two candidate slots and
\* book_court has returned with the second one untouched.
C28_Witness ==
    /\ pc = "bc_done"
    /\ Len(available) = 2
    /\ si = 1
    /\ Len(attempted) = 1
    /\ epExit = "no_player"
    /\ bcRet = "fail"

\* C29 (as claimed): 'Confirm Booking' is clicked only when the last read
\* of the terms checkbox gave it as checked.
C29_ConfirmOnlyWhenChecked ==
    (pc = "ep_confirm" \/ confirmClicks > 0) => tncRead = "checked"

\* C30 (as claimed): the Search button is not clicked a second time for a
\* name it was clicked for before, and a name whose lookup was triggered is
\* in used or rejected when the name loop goes on.
C30_OneLookupPerName ==
    /\ [](( /\ pc \in { "ep_names", "ep_field", "ep_final" }
            /\ signal # NoSignal
            /\ signal.search ) => name \in used \cup rejected)
    /\ [][ (pc = "ep_typed" /\ signal'.search) => name \notin looked ]_vars

\* the first place of name n in the roster
FirstPlace(roster, n) ==
    CHOOSE j \in 1 .. Len(roster) :
        roster[j] = n /\ \A k \in 1 .. (j - 1) : roster[k] # n

\* the names bound to the three fields are different and in roster order
BoundInRosterOrder ==
    /\ \A f, g \in 1 .. max_players : f # g => bound[f] # bound[g]
    /\ \A f \in 1 .. (max_players - 1) :
         FirstPlace(player_names, bound[f])
             < FirstPlace(player_names, bound[f + 1])

\* C31 (as claimed): once all three opponent fields are bound, the names
\* bound to them are pairwise different and the name of each field comes
\* later in the roster than the name of the field before it.
C31_BoundDistinctInOrder == idx = max_players => BoundInRosterOrder

\* x is one of the entries of sequence q
Holds(q, x) == \E k \in 1 .. Len(q) : q[k] = x

\* C32: login submits the form by one mechanism: Enter is tried first; the
\* button is clicked only when Enter could not be sent, by script, and by a
\* plain click only when the script click raised; the mechanism that
\* submitted the form is the last one tried; and when the button is missing
\* or both clicks raise, login returns False (stated where login returns:
\* main drops login's locals).
C32_OneSubmitMechanism ==
    /\ submitVia = "enter" => submitTried = << "enter" >>
    /\ submitVia = "js" => submitTried = << "enter", "js" >>
    /\ submitVia = "click" => submitTried = << "enter", "js", "click" >>
    /\ pc = "login_wait" => submitVia \in { "enter", "js", "click" }
    /\ (pc = "login_done" /\ loginExit \in { "no_button", "click_failed" }) =>
          /\ loginRet = "fail"
          /\ submitVia = "none"
          /\ submitTried # << >> /\ submitTried[1] = "enter"
          /\ loginExit = "click_failed" =>
                submitTried = << "enter", "js", "click" >>

\* C32 witness: Enter could not be sent, the script click raised, the plain
\* click went through and login is waiting for the result.
C32_Witness ==
    /\ pc = "login_wait"
    /\ submitVia = "click"
    /\ Holds(submitTried, "js")

\* C33 (as claimed): after the form was submitted, login returns True
\* exactly when the user name in the top right appeared within the wait,
\* whether or not the login modal went away.
C33_SuccessIffIndicator ==
    (pc = "login_done" /\ indicatorSeen # "none") =>
        (loginRet = "ok" <=> indicatorSeen = "appeared")

\* C34: the script fallback runs only after the custom-dropdown path has
\* failed; in the fallback a label without an entry in court_type_map gives
\* False with no script run; and the fallback gives True only when the value
\* read back from the select equals the value mapped from the label.
C34_FallbackChecked ==
    /\ (pc = "ct_fallback" \/ setterRuns > 0 \/ current_value # "none") =>
          customExit \in CustomFailures
    /\ (pc = "ct_done" /\ customExit = "ok") =>
          (courtRet = "ok" /\ setterRuns = 0 /\ current_value = "none")
    /\ (pc = "ct_done" /\ customExit \in CustomFailures) =>
          /\ CourtTypeMap(court_type) = "none" =>
                (courtRet = "fail" /\ setterRuns = 0 /\ current_value = "none")
          /\ courtRet = "ok" =>
                /\ setterRuns = 1
                /\ current_value = CourtTypeMap(court_type)

\* C34 witness: the dropdown option could not be clicked, the label has no
\* entry in the map, and select_court_type has returned False.
C34_Witness ==
    /\ pc = "ct_done"
    /\ customExit = "choose"
    /\ CourtTypeMap(court_type) = "none"
    /\ courtRet = "fail"

\* the three click mechanisms in the order of the code
ClickChain == << "js", "onclick", "attr" >>

\* C35: a slot is selected by the script click, else the direct onclick
\* call, else the onclick attribute, each tried only when the one before
\* raised, so that the mechanism that went through is the last one tried;
\* when all three fail, or the player form is not visible afterwards,
\* book_court returns False; and once book_court has returned no slot is
\* attempted.
C35_ClickChainThenGiveUp ==
    /\ [](clickTried # << >> =>
            /\ Len(clickTried) <= Len(ClickChain)
            /\ \A k \in 1 .. Len(clickTried) : clickTried[k] = ClickChain[k]
            /\ clickVia # "none" => clickVia = clickTried[Len(clickTried)]
            /\ clickVia = "none" =>
                  /\ clickTried = ClickChain
                  /\ pc = "bc_done" /\ bcRet = "fail"
            /\ formSeen = "hidden" => (pc = "bc_done" /\ bcRet = "fail")
            /\ formSeen = "visible" => pc = "ep_wait")
    /\ [][ pc = "bc_done" => UNCHANGED << si, attempted >> ]_vars

\* C35 witness: two candidate slots; at the first one the script click and
\* the onclick call raised, the onclick attribute went through, the player
\* form did not show, and book_court has returned False.
C35_Witness ==
    /\ pc = "bc_done"
    /\ Len(available) = 2
    /\ si = 1
    /\ Len(attempted) = 1
    /\ clickTried = ClickChain
    /\ clickVia = "attr"
    /\ formSeen = "hidden"
    /\ bcRet = "fail"

\* C36: a run without the username or the password never holds a driver
\* session and never touches the driver: the constructor raises ValueError
\* before it asks for a session, no stage is started, nothing is opened,
\* clicked or attempted, and the run ends there.
C36_NoDriverWithoutCredentials ==
    ~credentials =>
        /\ driver = "none"
        /\ pc \in { "main", "raised" }
        /\ pc = "raised" => fault = "ValueError"
        /\ started = << >>
        /\ consentCalls = 0 /\ calOpens = 0 /\ dayClicks = 0
        /\ attempted = << >> /\ clickTried = << >>
        /\ basketClicks = 0 /\ confirmClicks = 0

\* C36 witness: the constructor has raised for missing credentials and no
\* driver session exists.
C36_Witness ==
    /\ ~credentials
    /\ pc = "raised"
    /\ fault = "ValueError"
    /\ driver = "none"

====
